---- MODULE Spec2Model ----
(***************************************************************************)
(* Model of Controller::Joystick (virtual_joystick_controller.cpp/.h): the *)
(* widget's fields, its Qt event handlers and its two setters, with the    *)
(* geometry helpers as operators.  Positions are widget coordinates (the   *)
(* origin is the top-left corner), exactly as m_controllerPosition stores  *)
(* them; offsets from the widget centre are derived.                       *)
(***************************************************************************)
EXTENDS Integers, Sequences, FiniteSets, TLC

(* ------------------------------ bounds --------------------------------- *)

\* Largest widget width and height of the exhaustive size grid.
MaxDim == 4

\* How far outside the grid 0..MaxDim the pointer may be (mouse grab).
PtrSlack == 1

\* Sizes of the scenarios: radii (67,33), (34,17) and travel radius 50.
ExampleSizes == {<<300, 200>>, <<100, 100>>, <<150, 150>>}

\* Pointer positions of the scenarios on the 150x150 widget: offsets
\* (100,0) and (-80,30); and one far away from every widget of the grid.
ExamplePoints == {<<175, 75>>, <<-5, 105>>, <<300, -200>>}

Sizes == ((0..MaxDim) \X (0..MaxDim)) \cup ExampleSizes

PtrCoords == (0 - PtrSlack)..(MaxDim + PtrSlack)

Points == (PtrCoords \X PtrCoords) \cup ExamplePoints

\* event->buttons(): the set of buttons held during a move.
LeftButton == {"LeftButton"}

ButtonStates == {LeftButton, {"LeftButton", "RightButton"}}

(* --------------------------- JoystickMode ------------------------------ *)

NoAxis == 0

XAxisOnly == 1

YAxisOnly == 2

AllAxis == 3

JoystickMode == {NoAxis, XAxisOnly, YAxisOnly, AllAxis}

(* ------------------------------ state ---------------------------------- *)

VARIABLES
    width,                \* QWidget::width()
    height,               \* QWidget::height()
    m_mode,               \* degree of freedom
    m_backToZero,         \* return to rest position on release
    m_joystick,           \* radius of the travel circle
    m_controller,         \* radius of the handle
    m_controllerPosition, \* <<x, y>> of the handle, widget coordinates
    shown,                \* the widget has received its first resizeEvent
    running,              \* FALSE once std::terminate has been called
    handler,              \* the member function that ran most recently
    signal                \* the emit statement the most recent handler ran

vars == <<width, height, m_mode, m_backToZero, m_joystick, m_controller,
          m_controllerPosition, shown, running, handler, signal>>

(* ------------------------------ signals -------------------------------- *)

\* signal is <<>> (nothing emitted), pressed, or valueChanged(x, y) with
\* the int arguments of the emit statement.
NoSignal == <<>>

pressed == <<"pressed">>

valueChanged(x, y) == <<"valueChanged", x, y>>

IsValueChanged(s) == Len(s) = 3

\* int -> char at the call of valueChanged(char, char): the value modulo
\* 2^8, read as signed or unsigned char according to the build.
ToChar(v, isSigned) ==
    LET m == v % 256
    IN  IF isSigned /\ m >= 128 THEN m - 256 ELSE m

\* What the observers of valueChanged receive in a build whose plain char
\* is signed (isSigned) or unsigned.
Delivered(s, isSigned) == <<ToChar(s[2], isSigned), ToChar(s[3], isSigned)>>

(* ------------------------------ helpers -------------------------------- *)

Min(a, b) == IF a < b THEN a ELSE b

getCenter(w, h) == <<w \div 2, h \div 2>>

\* getRadius with one division by 3 in place of the two by 2 and by 6.
getRadiusThird(w, h) == Min(w, h) \div 3

getRadius(w, h) == (Min(w, h) \div 2) - (Min(w, h) \div 6)

\* contains with the radius left unsquared.
containsUnsquared(x, y, radius) == x * x + y * y <= radius

contains(x, y, radius) == x * x + y * y <= radius * radius

translateTopLeftToCenter(pos, size) ==
    <<pos[1] - size[1] \div 2, pos[2] - size[2] \div 2>>

\* The handle's offset from the widget centre.
HandleOffset == translateTopLeftToCenter(m_controllerPosition, <<width, height>>)

(* ------------------- the clamp of mode AllAxis ------------------------- *)
(* m_joystick.radius() * cos(angle) + width() / 2 is a double, converted   *)
(* to int by setX; it is never negative (radius <= width / 2), so the      *)
(* conversion is the floor, and cos(angle) is x / sqrt(x^2 + y^2) up to    *)
(* the rounding of IEEE-754 binary64.  Likewise sin(angle) is y / sqrt().  *)

\* The largest k in lo..hi with k^2 * d2 <= n2, given that lo is such a k.
RECURSIVE FloorRootIn(_, _, _, _)
FloorRootIn(lo, hi, n2, d2) ==
    IF lo = hi THEN lo
    ELSE LET mid == (lo + hi + 1) \div 2
         IN  IF mid * mid * d2 <= n2 THEN FloorRootIn(mid, hi, n2, d2)
             ELSE FloorRootIn(lo, mid - 1, n2, d2)

\* floor(|n| / sqrt(d2)) for d2 > 0 and |n| <= r * sqrt(d2).
FloorRoot(n, d2, r) == FloorRootIn(0, r, n * n, d2)

\* The values the int conversion of r * c / sqrt(d2) + centre can leave
\* for the offset, for c # 0 and a pointer off both axes: the floor, and
\* where the quotient is a whole number k > 0 or k < 0 also k - 1, since
\* cos(acos(.)) may return a double just below the quotient.
FloorScaled(r, c, d2) ==
    LET n == r * c
        k == FloorRoot(n, d2, r)
        whole == k * k * d2 = n * n
        floor == IF n >= 0 THEN k ELSE IF whole THEN 0 - k ELSE 0 - k - 1
    IN  IF r > 0 /\ whole THEN {floor, floor - 1} ELSE {floor}

\* The largest power of two that is at most c, for c >= 1.
RECURSIVE Pow2Floor(_)
Pow2Floor(c) == IF c < 2 THEN 1 ELSE 2 * Pow2Floor(c \div 2)

\* |cos(angle)| for x = 0, y > 0 (angle is the double nearest -3 pi / 2)
\* and |sin(angle)| for y = 0, x < 0 (angle is -M_PI), where the exact
\* value is 0: 1.8370e-16 and 1.2246e-16, here in units of 2^-53 / 10^6.
CosErr == 1654596

SinErr == 1103064

ErrScale == 1000000

\* The double nearest c - r * err * 2^-53 is below c (and so converts to
\* the int c - 1): the term exceeds half the gap between c and the double
\* before it.
RoundsDown(r, err, c) ==
    /\ c > 0
    /\ IF c = Pow2Floor(c) THEN 2 * r * err > c * ErrScale
       ELSE r * err > Pow2Floor(c) * ErrScale

\* The x offsets the clamp can give the handle for the pointer offset
\* (x, y), travel radius r and widget centre x cx.  On the axes cos(angle)
\* is exactly 1 or -1, or the small CosErr.
ClampX(x, y, r, cx) ==
    IF x = 0 THEN (IF y > 0 /\ RoundsDown(r, CosErr, cx) THEN {0 - 1} ELSE {0})
    ELSE IF y = 0 THEN (IF x > 0 THEN {r} ELSE {0 - r})
    ELSE FloorScaled(r, x, x * x + y * y)

\* The y offsets the clamp can give the handle.
ClampY(x, y, r, cy) ==
    IF y = 0 THEN (IF x < 0 /\ RoundsDown(r, SinErr, cy) THEN {0 - 1} ELSE {0})
    ELSE IF x = 0 THEN (IF y > 0 THEN {r} ELSE {0 - r})
    ELSE FloorScaled(r, y, x * x + y * y)

\* ClampAxis without the lower limit.
ClampAxisUpperOnly(v, r) == IF v < r THEN v ELSE r

\* The free coordinate of a single-axis mode, as an offset from the centre.
ClampAxis(v, r) ==
    IF v < r /\ v > 0 - r THEN v
    ELSE IF v > 0 THEN r
    ELSE 0 - r

(* ------------------------------- Init ----------------------------------- *)

\* Joystick::Joystick: mode AllAxis, back-to-zero on, both circles of
\* radius 0, the handle at QPoint().  The geometry is whatever the host
\* gave the widget; no input event arrives before the first resizeEvent.
Init ==
    /\ \E size \in Sizes : width = size[1] /\ height = size[2]
    /\ m_mode = AllAxis
    /\ m_backToZero = TRUE
    /\ m_joystick = 0
    /\ m_controller = 0
    /\ m_controllerPosition = <<0, 0>>
    /\ shown = FALSE
    /\ running = TRUE
    /\ handler = "Joystick"
    /\ signal = NoSignal

(* ------------------------------ actions --------------------------------- *)

setMode(mode) ==
    /\ running
    /\ handler' = "setMode"
    /\ m_mode' = mode
    /\ signal' = NoSignal
    /\ UNCHANGED <<width, height, m_backToZero, m_joystick, m_controller,
                   m_controllerPosition, shown, running>>

setBackToZero(enable) ==
    /\ running
    /\ handler' = "setBackToZero"
    /\ m_backToZero' = enable
    /\ signal' = NoSignal
    /\ UNCHANGED <<width, height, m_mode, m_joystick, m_controller,
                   m_controllerPosition, shown, running>>

resizeEvent(size) ==
    /\ running
    /\ handler' = "resizeEvent"
    /\ width' = size[1]
    /\ height' = size[2]
    /\ m_joystick' = getRadius(size[1], size[2])
    /\ m_controller' = getRadius(size[1], size[2]) \div 2
    /\ m_controllerPosition' = getCenter(size[1], size[2])
    /\ shown' = TRUE
    /\ signal' = NoSignal
    /\ UNCHANGED <<m_mode, m_backToZero, running>>

\* The call translateTopLeftToCenter({event->x(), event->y()}) names no
\* bounding size; the widget's own size is the one the move handler uses.
mousePressEvent(p) ==
    /\ running
    /\ handler' = "mousePressEvent"
    /\ shown
    /\ LET pos == translateTopLeftToCenter(p, <<width, height>>)
       IN  signal' = IF contains(pos[1], pos[2], m_controller) THEN pressed
                     ELSE NoSignal
    /\ UNCHANGED <<width, height, m_mode, m_backToZero, m_joystick,
                   m_controller, m_controllerPosition, shown, running>>

\* The handle after a move to the pointer offset (x, y) with the left
\* button alone, in the three modes that have a case in the switch.
MovedTo(x, y) ==
    LET cx == width \div 2
        cy == height \div 2
    IN  IF m_mode = AllAxis
        THEN IF contains(x, y, m_joystick) THEN {<<x + cx, y + cy>>}
             ELSE {<<hx + cx, hy + cy>> :
                      hx \in ClampX(x, y, m_joystick, cx),
                      hy \in ClampY(x, y, m_joystick, cy)}
        ELSE IF m_mode = XAxisOnly
        THEN {<<ClampAxis(x, m_joystick) + cx, m_controllerPosition[2]>>}
        ELSE {<<m_controllerPosition[1], ClampAxis(y, m_joystick) + cy>>}

mouseMoveEvent(p, buttons) ==
    /\ running
    /\ handler' = "mouseMoveEvent"
    /\ shown
    /\ LET x == p[1] - width \div 2
           y == p[2] - height \div 2
       IN  IF buttons # LeftButton
           THEN /\ signal' = NoSignal
                /\ UNCHANGED <<m_controllerPosition, running>>
           ELSE IF m_mode = NoAxis
           THEN \* default: throw; with no exception in flight: std::terminate
                /\ running' = FALSE
                /\ signal' = NoSignal
                /\ UNCHANGED m_controllerPosition
           ELSE /\ m_controllerPosition' \in MovedTo(x, y)
                /\ signal' = valueChanged(x, y)
                /\ UNCHANGED running
    /\ UNCHANGED <<width, height, m_mode, m_backToZero, m_joystick,
                   m_controller, shown>>

\* mouseReleaseEvent without the test of m_backToZero.
mouseReleaseAlways ==
    /\ running
    /\ handler' = "mouseReleaseEvent"
    /\ shown
    /\ m_controllerPosition' = getCenter(width, height)
    /\ signal' = NoSignal
    /\ UNCHANGED <<width, height, m_mode, m_backToZero, m_joystick,
                   m_controller, shown, running>>

mouseReleaseEvent ==
    /\ running
    /\ handler' = "mouseReleaseEvent"
    /\ shown
    /\ m_controllerPosition' = IF m_backToZero THEN getCenter(width, height)
                               ELSE m_controllerPosition
    /\ signal' = NoSignal
    /\ UNCHANGED <<width, height, m_mode, m_backToZero, m_joystick,
                   m_controller, shown, running>>

\* mouseMoveEvent returns before it reads the pointer position unless the
\* left button alone is held: one position stands for all of them then.
PointsRead(buttons) == IF buttons = LeftButton THEN Points ELSE {<<0, 0>>}

Next ==
    \/ \E mode \in JoystickMode : setMode(mode)
    \/ \E enable \in BOOLEAN : setBackToZero(enable)
    \/ \E size \in Sizes : resizeEvent(size)
    \/ \E p \in Points : mousePressEvent(p)
    \/ \E buttons \in ButtonStates :
          \E p \in PointsRead(buttons) : mouseMoveEvent(p, buttons)
    \/ mouseReleaseEvent

Spec == Init /\ [][Next]_vars

(* ------------------------------ properties ------------------------------ *)

Sq(v) == v * v

Sgn(v) == IF v > 0 THEN 1 ELSE IF v < 0 THEN 0 - 1 ELSE 0

\* The most recent handler was a pointer move that reached the emit
\* statement: signal[2], signal[3] are the recentred pointer offsets, and
\* m_mode is the mode the move was handled in.
Moved == handler = "mouseMoveEvent" /\ IsValueChanged(signal)

\* C1: after a pointer move handled in mode XAxisOnly the handle's y
\* offset from the centre is 0, and after one handled in mode YAxisOnly
\* its x offset is 0.
C1_LockedAxisAtCentre ==
    /\ (Moved /\ m_mode = XAxisOnly) => HandleOffset[2] = 0
    /\ (Moved /\ m_mode = YAxisOnly) => HandleOffset[1] = 0

\* C2: a pointer move in mode NoAxis leaves the handle where it was and
\* the control running.
C2_NoAxisMoveIsNoOp ==
    [][(m_mode = NoAxis /\ \E p \in Points : mouseMoveEvent(p, LeftButton))
          => (m_controllerPosition' = m_controllerPosition /\ running')]_vars

\* C3: in mode AllAxis a move to a pointer offset at distance at most the
\* travel radius from the centre places the handle at that offset.
C3_FreeMoveInsideCircle ==
    (Moved /\ m_mode = AllAxis
           /\ Sq(signal[2]) + Sq(signal[3]) <= Sq(m_joystick))
        => HandleOffset = <<signal[2], signal[3]>>

\* A move in mode AllAxis to a point on the travel circle, off the centre.
C3_Witness ==
    /\ Moved /\ m_mode = AllAxis
    /\ m_joystick > 0
    /\ Sq(signal[2]) + Sq(signal[3]) = Sq(m_joystick)
    /\ HandleOffset = <<signal[2], signal[3]>>

\* C4: in mode AllAxis a move to a pointer offset farther than the travel
\* radius places the handle at distance travel radius from the centre, up
\* to the rounding of each coordinate to a whole pixel, each coordinate
\* having the sign of the pointer's or being 0; travel radius 50 and
\* offset (100, 0) give (50, 0).
C4_ClampedOntoCircle ==
    (Moved /\ m_mode = AllAxis
           /\ Sq(signal[2]) + Sq(signal[3]) > Sq(m_joystick))
        => /\ Sq(HandleOffset[1]) + Sq(HandleOffset[2]) <= Sq(m_joystick + 2)
           /\ m_joystick >= 2 =>
                 Sq(HandleOffset[1]) + Sq(HandleOffset[2]) >= Sq(m_joystick - 2)
           /\ HandleOffset[1] = 0 \/ Sgn(HandleOffset[1]) = Sgn(signal[2])
           /\ HandleOffset[2] = 0 \/ Sgn(HandleOffset[2]) = Sgn(signal[3])
           /\ (m_joystick = 50 /\ signal = valueChanged(100, 0))
                 => HandleOffset = <<50, 0>>

\* C5: in mode XAxisOnly the handle's x offset is the pointer's x offset
\* when that lies strictly between -travelRadius and travelRadius, and
\* +travelRadius or -travelRadius when it is at or beyond that limit; mode
\* YAxisOnly does the same on y.
C5_SingleAxisClamp ==
    LET Limited(h, v) ==
            /\ (0 - m_joystick < v /\ v < m_joystick) => h = v
            /\ v >= m_joystick => h = m_joystick
            /\ v <= 0 - m_joystick => h = 0 - m_joystick
    IN  /\ (Moved /\ m_mode = XAxisOnly) => Limited(HandleOffset[1], signal[2])
        /\ (Moved /\ m_mode = YAxisOnly) => Limited(HandleOffset[2], signal[3])

\* The scenario: XAxisOnly, travel radius 50, pointer offset (-80, 30).
C5_Witness ==
    /\ Moved /\ m_mode = XAxisOnly
    /\ m_joystick = 50
    /\ signal = valueChanged(0 - 80, 30)
    /\ HandleOffset[1] = 0 - 50

\* C6: a release with return-to-center enabled leaves the handle at the
\* widget centre; a release with it disabled leaves the handle where it
\* was.
C6_ReleaseReturnsToRest ==
    [][mouseReleaseEvent =>
          IF m_backToZero THEN HandleOffset' = <<0, 0>>
          ELSE m_controllerPosition' = m_controllerPosition]_vars

\* A release, return-to-center disabled, that left the handle off centre.
C6_Witness ==
    /\ handler = "mouseReleaseEvent"
    /\ ~m_backToZero
    /\ HandleOffset # <<0, 0>>

\* C7: the observers of valueChanged receive the recentred pointer offset
\* of a move in mode AllAxis, whether plain char is signed or unsigned.
C7_ValueChangedCarriesOffset ==
    (Moved /\ m_mode = AllAxis)
        => \E isSigned \in BOOLEAN :
              Delivered(signal, isSigned) = <<signal[2], signal[3]>>

\* C8: once resized, the travel radius is min/2 - min/6 of the smaller
\* side and the handle radius half of it, both non-negative; 300x200 gives
\* (67, 33) and 100x100 gives (34, 17).
C8_RadiiAfterResize ==
    shown =>
        LET m == IF width <= height THEN width ELSE height
        IN  /\ m_joystick = (m \div 2) - (m \div 6)
            /\ m_controller = m_joystick \div 2
            /\ m_joystick >= 0 /\ m_controller >= 0
            /\ (width = 300 /\ height = 200) => <<m_joystick, m_controller>> = <<67, 33>>
            /\ (width = 100 /\ height = 100) => <<m_joystick, m_controller>> = <<34, 17>>

\* The resize to 300x200.
C8_Witness ==
    /\ handler = "resizeEvent"
    /\ width = 300 /\ height = 200
    /\ m_joystick = 67 /\ m_controller = 33

\* C9: a press emits pressed exactly when the press point is within the
\* handle's radius of the handle, and changes neither the handle position
\* nor the mode nor the radii.
C9_PressedIffOnHandle ==
    [][\A p \in Points :
          mousePressEvent(p) =>
             /\ (signal' = pressed) <=>
                   (Sq(p[1] - m_controllerPosition[1])
                      + Sq(p[2] - m_controllerPosition[2]) <= Sq(m_controller))
             /\ UNCHANGED <<m_controllerPosition, m_mode, m_joystick,
                            m_controller>>]_vars

\* C10: once the widget is laid out, the handle's squared distance from
\* the centre is at most the travel radius squared.
C10_HandleWithinTravelCircle ==
    shown => Sq(HandleOffset[1]) + Sq(HandleOffset[2]) <= Sq(m_joystick)

====
